---- MODULE Spec2Model ----
(***************************************************************************)
(* Lifecycle callbacks of src/dl/callback.py: the no-op base Callback, the *)
(* CallbackCompose dispatcher that fans a hook call out to its callbacks,  *)
(* and the two metric callbacks that write into state.batch_metrics.       *)
(*                                                                         *)
(* A RunState is a record [input, output, batch_metrics] of string-keyed   *)
(* maps.  A value returned by a metric function is a record [tag, v]:      *)
(* tag "number" is a bare Python number, tag "tensor" a boxed scalar and   *)
(* tag "other" a value of any other type.  A Python exception is modelled  *)
(* as the err field of a call's result: "none" when the call returned.     *)
(***************************************************************************)
EXTENDS Integers, Sequences, FiniteSets, TLC

VARIABLES
  callbacks,       \* CallbackCompose.callbacks, in dict insertion order
  ctor_callbacks,  \* the callbacks argument of CallbackCompose.__init__
  state,           \* the RunState the driver passes to every hook
  hook,            \* the CallbackCompose method called last, or "none"
  err,             \* the exception that call ended with, or "none"
  trace,           \* the callbacks invoked by that call, in order
  entry            \* the RunState on entry to that call

vars == <<callbacks, ctor_callbacks, state, hook, err, trace, entry>>

(* ------------------------------ bounds --------------------------------- *)

\* longest callback collection handed to CallbackCompose
MaxCallbacks == 2

\* longest list_args of a MultiMetricCallback
MaxArgs == 2

\* batch values (targets, outputs) range over 1..MaxData
MaxData == 2

(* --------------------------- value universe ---------------------------- *)

Hooks ==
  {"on_train_start", "on_train_end", "on_infer_start", "on_infer_end",
   "on_epoch_start", "on_epoch_end", "on_loader_start", "on_loader_end",
   "on_batch_start", "on_batch_end"}

Data == 1..MaxData

InputKeys == {"targets", "labels"}

OutputKeys == {"logits"}

Labels == {"a", "b"}

Prefixes == {"p", "p_a"}

\* keys a driver may have left in batch_metrics before a hook call
PreKeys == {"p", "p_a", "zz"}

\* the value stored under every pre-existing key
OldVal == 0 - 1

EmptyMap == [k \in {} |-> 0]

\* d.setdefault(k, v): a key that is there keeps its value
Put_setdefault(d, k, v) == [x \in (DOMAIN d) \cup {k} |-> IF x \in DOMAIN d THEN d[x] ELSE v]

\* d[k] = v on a Python dict
Put(d, k, v) == [x \in (DOMAIN d) \cup {k} |-> IF x = k THEN v ELSE d[x]]

MapsOver(keys, vals) == UNION {[S -> vals] : S \in SUBSET keys}

\* **metric_params given at construction
ParamSets == {EmptyMap, [x \in {"k"} |-> 1]}

RunStates ==
  [input : MapsOver(InputKeys, Data),
   output : MapsOver(OutputKeys, Data),
   batch_metrics : {[k \in S |-> OldVal] : S \in {{}, PreKeys}}]

SeqsUpTo(S, n) == UNION {[1..k -> S] : k \in 0..n}

(* ------------------------- metric functions ---------------------------- *)

\* metric functions handed to a MetricCallback
SingleFns == {"acc", "loss", "bad", "raises"}

\* metric functions handed to a MultiMetricCallback
MultiFns == {"per_arg", "short", "long", "bad_tail", "bad_long", "raises"}

Param(params) == IF "k" \in DOMAIN params THEN params["k"] ELSE 0

Base(targets, outputs, params) == 100 * targets + 10 * outputs + Param(params)

Number(n) == [tag |-> "number", v |-> n]

Tensor(n) == [tag |-> "tensor", v |-> n]

Other == [tag |-> "other", v |-> 0]

LabelCode(arg) == IF arg = "a" THEN 1 ELSE 2

\* the result for the label at position i: a number at odd positions, a
\* boxed scalar at even ones; it depends on the position and on the label
PerArg(targets, outputs, args, params, i) ==
  LET n == 1000 * i + Base(targets, outputs, params)
             + (IF i <= Len(args) THEN 10000 * LabelCode(args[i]) ELSE 0)
  IN IF i % 2 = 1 THEN Number(n) ELSE Tensor(n)

\* metric_fn(targets, outputs, **metric_params) of a MetricCallback:
\* pure, so its result is a function of its arguments
CallSingle(fn, targets, outputs, params) ==
  CASE fn = "acc" -> [raised |-> FALSE, value |-> Number(Base(targets, outputs, params))]
    [] fn = "loss" -> [raised |-> FALSE, value |-> Tensor(Base(outputs, targets, params))]
    [] fn = "bad" -> [raised |-> FALSE, value |-> Other]
    [] OTHER -> [raised |-> TRUE, value |-> Other]

\* metric_fn(targets, outputs, list_args, **metric_params) of a
\* MultiMetricCallback: a sequence of results, of the length of list_args
\* ("per_arg", "bad_tail"), one shorter ("short") or one longer ("long",
\* "bad_long"); the last result of "bad_tail" and the first of "bad_long"
\* are not scalars
CallMulti(fn, targets, outputs, args, params) ==
  LET k == Len(args)
      n == CASE fn = "short" -> IF k = 0 THEN 0 ELSE k - 1
             [] fn \in {"long", "bad_long"} -> k + 1
             [] OTHER -> k
      res == [i \in 1..n |->
                IF (fn = "bad_tail" /\ i = n) \/ (fn = "bad_long" /\ i = 1)
                  THEN Other
                  ELSE PerArg(targets, outputs, args, params, i)]
  IN [raised |-> fn = "raises", value |-> IF fn = "raises" THEN <<>> ELSE res]

\* the arguments of one metric_fn call
FnCall(targets, outputs, args, multi, params) ==
  [targets |-> targets, outputs |-> outputs, list_args |-> args,
   multi |-> multi, metric_params |-> params]

(* ------------------------- scalar extraction --------------------------- *)

\* UtilsFactory.get_val_from_metric: a bare number is returned as it is, a
\* boxed scalar is unboxed, anything else is rejected
get_val_from_metric(metric) ==
  IF metric.tag \in {"number", "tensor"}
    THEN [err |-> "none", val |-> metric.v]
    ELSE [err |-> "UnsupportedMetricType", val |-> 0]

(* ------------------------------ callbacks ------------------------------ *)

\* a base Callback has no attributes: the fields below are placeholders
BaseCallback ==
  [kind |-> "Callback", prefix |-> "", metric_fn |-> "none",
   list_args |-> <<>>, input_key |-> "targets", output_key |-> "logits",
   metric_params |-> EmptyMap]

\* MetricCallback.__init__
MetricCallback(prefix, metric_fn, input_key, output_key, metric_params) ==
  [kind |-> "MetricCallback", prefix |-> prefix, metric_fn |-> metric_fn,
   list_args |-> <<>>, input_key |-> input_key, output_key |-> output_key,
   metric_params |-> metric_params]

\* MultiMetricCallback.__init__
MultiMetricCallback(prefix, metric_fn, list_args, input_key, output_key, metric_params) ==
  [kind |-> "MultiMetricCallback", prefix |-> prefix, metric_fn |-> metric_fn,
   list_args |-> list_args, input_key |-> input_key, output_key |-> output_key,
   metric_params |-> metric_params]

\* the result of one hook call on one callback
Result(s, e, calls) == [state |-> s, err |-> e, fn_calls |-> calls]

\* a base hook that resets the metrics instead of passing
Callback_hook_clears(self, s) ==
  Result([s EXCEPT !.batch_metrics = EmptyMap], "none", <<>>)

\* Callback.on_*: every hook of the base class is `pass`
Callback_hook(self, s) == Result(s, "none", <<>>)

\* the write of on_batch_end with `value` in place of the extracted scalar
\* and `missing` in place of a targets value that is not there
MetricCallback_variant(self, s, lenient, Value(_, _)) ==
  IF self.output_key \notin DOMAIN s.output THEN Result(s, "KeyError", <<>>)
  ELSE IF ~lenient /\ self.input_key \notin DOMAIN s.input
    THEN Result(s, "KeyError", <<>>)
  ELSE
    LET outputs == s.output[self.output_key]
        targets == IF self.input_key \in DOMAIN s.input
                     THEN s.input[self.input_key] ELSE 1
        call == FnCall(targets, outputs, <<>>, FALSE, self.metric_params)
        metric == CallSingle(self.metric_fn, targets, outputs, self.metric_params)
        got == get_val_from_metric(metric.value)
    IN IF metric.raised THEN Result(s, "MetricFnError", <<call>>)
       ELSE IF got.err # "none" THEN Result(s, got.err, <<call>>)
       ELSE Result([s EXCEPT !.batch_metrics =
                               Put(@, self.prefix, Value(@, got.val))],
                   "none", <<call>>)

\* on_batch_end writing with setdefault: an existing value is kept
MetricCallback_on_batch_end_setdefault(self, s) ==
  LET Value(bm, v) == IF self.prefix \in DOMAIN bm THEN bm[self.prefix] ELSE v
  IN MetricCallback_variant(self, s, FALSE, Value)

\* on_batch_end reading the targets with .get(input_key, default)
MetricCallback_on_batch_end_get(self, s) ==
  LET Value(bm, v) == v
  IN MetricCallback_variant(self, s, TRUE, Value)

\* on_batch_end adding to the value already stored (a running sum)
MetricCallback_on_batch_end_accumulate(self, s) ==
  LET Value(bm, v) == IF self.prefix \in DOMAIN bm THEN bm[self.prefix] + v ELSE v
  IN MetricCallback_variant(self, s, FALSE, Value)

\* on_batch_end calling metric_fn(outputs, targets, ...): arguments swapped
MetricCallback_on_batch_end_swapped(self, s) ==
  IF self.output_key \notin DOMAIN s.output THEN Result(s, "KeyError", <<>>)
  ELSE IF self.input_key \notin DOMAIN s.input THEN Result(s, "KeyError", <<>>)
  ELSE
    LET outputs == s.output[self.output_key]
        targets == s.input[self.input_key]
        call == FnCall(outputs, targets, <<>>, FALSE, self.metric_params)
        metric == CallSingle(self.metric_fn, outputs, targets, self.metric_params)
        got == get_val_from_metric(metric.value)
    IN IF metric.raised THEN Result(s, "MetricFnError", <<call>>)
       ELSE IF got.err # "none" THEN Result(s, got.err, <<call>>)
       ELSE Result([s EXCEPT !.batch_metrics = Put(@, self.prefix, got.val)],
                   "none", <<call>>)

\* MetricCallback.on_batch_end
MetricCallback_on_batch_end(self, s) ==
  IF self.output_key \notin DOMAIN s.output THEN Result(s, "KeyError", <<>>)
  ELSE IF self.input_key \notin DOMAIN s.input THEN Result(s, "KeyError", <<>>)
  ELSE
    LET outputs == s.output[self.output_key]
        targets == s.input[self.input_key]
        call == FnCall(targets, outputs, <<>>, FALSE, self.metric_params)
        metric == CallSingle(self.metric_fn, targets, outputs, self.metric_params)
        got == get_val_from_metric(metric.value)
    IN IF metric.raised THEN Result(s, "MetricFnError", <<call>>)
       ELSE IF got.err # "none" THEN Result(s, got.err, <<call>>)
       ELSE Result([s EXCEPT !.batch_metrics = Put(@, self.prefix, got.val)],
                   "none", <<call>>)

\* f"{arg}": the prefix left out of the key
MetricKey_noprefix(prefix, arg) == arg

\* f"{self.prefix}_{arg}"
MetricKey(prefix, arg) == prefix \o "_" \o arg

\* two nested loops instead of zip: every label ends with the last result
RECURSIVE ZipWrite_nested(_, _, _, _, _)
ZipWrite_nested(bm, prefix, args, metrics, i) ==
  IF i > Len(args) \/ Len(metrics) = 0 THEN [bm |-> bm, err |-> "none"]
  ELSE LET got == get_val_from_metric(metrics[Len(metrics)])
       IN IF got.err # "none" THEN [bm |-> bm, err |-> got.err]
          ELSE ZipWrite_nested(Put(bm, MetricKey(prefix, args[i]), got.val),
                               prefix, args, metrics, i + 1)

\* zip(..., strict=True): sequences of different lengths are an error
RECURSIVE ZipWrite_strict(_, _, _, _, _)
ZipWrite_strict(bm, prefix, args, metrics, i) ==
  IF Len(args) # Len(metrics) THEN [bm |-> bm, err |-> "MetricCountMismatch"]
  ELSE IF i > Len(args) THEN [bm |-> bm, err |-> "none"]
  ELSE LET got == get_val_from_metric(metrics[i])
       IN IF got.err # "none" THEN [bm |-> bm, err |-> got.err]
          ELSE ZipWrite_strict(Put(bm, MetricKey(prefix, args[i]), got.val),
                               prefix, args, metrics, i + 1)

\* a key written earlier in the loop is not written again (first write wins)
RECURSIVE ZipWrite_first_wins(_, _, _, _, _)
ZipWrite_first_wins(bm, prefix, args, metrics, i) ==
  IF i > Len(args) \/ i > Len(metrics) THEN [bm |-> bm, err |-> "none"]
  ELSE LET got == get_val_from_metric(metrics[i])
           seen == \E j \in 1..(i - 1) : args[j] = args[i]
       IN IF got.err # "none" THEN [bm |-> bm, err |-> got.err]
          ELSE ZipWrite_first_wins(
                 IF seen THEN bm ELSE Put(bm, MetricKey(prefix, args[i]), got.val),
                 prefix, args, metrics, i + 1)

\* zip_longest(..., fillvalue=0): a label without a result is written as 0
RECURSIVE ZipWrite_longest(_, _, _, _, _)
ZipWrite_longest(bm, prefix, args, metrics, i) ==
  IF i > Len(args) THEN [bm |-> bm, err |-> "none"]
  ELSE LET got == IF i > Len(metrics) THEN [err |-> "none", val |-> 0]
                  ELSE get_val_from_metric(metrics[i])
       IN IF got.err # "none" THEN [bm |-> bm, err |-> got.err]
          ELSE ZipWrite_longest(Put(bm, MetricKey(prefix, args[i]), got.val),
                                prefix, args, metrics, i + 1)

\* for arg, metric in zip(self.list_args, metrics): the pairs from position
\* i on; zip stops at the end of the shorter sequence
RECURSIVE ZipWrite(_, _, _, _, _)
ZipWrite(bm, prefix, args, metrics, i) ==
  IF i > Len(args) \/ i > Len(metrics) THEN [bm |-> bm, err |-> "none"]
  ELSE LET got == get_val_from_metric(metrics[i])
       IN IF got.err # "none" THEN [bm |-> bm, err |-> got.err]
          ELSE ZipWrite(Put(bm, MetricKey(prefix, args[i]), got.val),
                        prefix, args, metrics, i + 1)

\* MultiMetricCallback.on_batch_end
MultiMetricCallback_on_batch_end(self, s) ==
  IF self.output_key \notin DOMAIN s.output THEN Result(s, "KeyError", <<>>)
  ELSE IF self.input_key \notin DOMAIN s.input THEN Result(s, "KeyError", <<>>)
  ELSE
    LET outputs == s.output[self.output_key]
        targets == s.input[self.input_key]
        call == FnCall(targets, outputs, self.list_args, TRUE, self.metric_params)
        metrics == CallMulti(self.metric_fn, targets, outputs, self.list_args,
                             self.metric_params)
        w == ZipWrite(s.batch_metrics, self.prefix, self.list_args,
                      metrics.value, 1)
    IN IF metrics.raised THEN Result(s, "MetricFnError", <<call>>)
       ELSE Result([s EXCEPT !.batch_metrics = w.bm], w.err, <<call>>)

\* the metric callbacks overriding on_batch_start as well
Invoke_batch_start(self, h, s) ==
  IF h \in {"on_batch_end", "on_batch_start"} /\ self.kind = "MetricCallback"
    THEN MetricCallback_on_batch_end(self, s)
  ELSE IF h \in {"on_batch_end", "on_batch_start"} /\ self.kind = "MultiMetricCallback"
    THEN MultiMetricCallback_on_batch_end(self, s)
  ELSE Callback_hook(self, s)

\* value.<h>(state=state): method resolution on the callback's class; the
\* metric callbacks override on_batch_end only and inherit the other hooks
Invoke(self, h, s) ==
  IF h = "on_batch_end" /\ self.kind = "MetricCallback"
    THEN MetricCallback_on_batch_end(self, s)
  ELSE IF h = "on_batch_end" /\ self.kind = "MultiMetricCallback"
    THEN MultiMetricCallback_on_batch_end(self, s)
  ELSE Callback_hook(self, s)

(* ------------------------------ dispatcher ----------------------------- *)

\* on_loader_end pasted from on_loader_start without renaming the call
Forward_pasted(method) == IF method = "on_loader_end" THEN "on_loader_start" ELSE method

\* the hook a CallbackCompose method calls on each of its callbacks
Forward(method) == method

\* one record per callback invoked during a CallbackCompose call
Invoked(i, h, before, r) ==
  [idx |-> i, hook |-> h, before |-> before, after |-> r.state,
   err |-> r.err, fn_calls |-> r.fn_calls]

\* the loop over reversed(self.callbacks.items())
RECURSIVE Iterate_reversed(_, _, _, _, _)
Iterate_reversed(cbs, h, s, i, tr) ==
  IF i > Len(cbs) THEN [state |-> s, err |-> "none", trace |-> tr]
  ELSE LET k == Len(cbs) + 1 - i
           r == Invoke(cbs[k], h, s)
           tr2 == Append(tr, Invoked(k, h, s, r))
       IN IF r.err # "none"
            THEN [state |-> r.state, err |-> r.err, trace |-> tr2]
            ELSE Iterate_reversed(cbs, h, r.state, i + 1, tr2)

\* the loop with each call wrapped in try/except: pass
RECURSIVE Iterate_swallow(_, _, _, _, _)
Iterate_swallow(cbs, h, s, i, tr) ==
  IF i > Len(cbs) THEN [state |-> s, err |-> "none", trace |-> tr]
  ELSE LET r == Invoke(cbs[i], h, s)
       IN Iterate_swallow(cbs, h, r.state, i + 1, Append(tr, Invoked(i, h, s, r)))

\* for key, value in self.callbacks.items(): value.<h>(state=state), from
\* position i on; an exception leaves the loop at once
RECURSIVE Iterate(_, _, _, _, _)
Iterate(cbs, h, s, i, tr) ==
  IF i > Len(cbs) THEN [state |-> s, err |-> "none", trace |-> tr]
  ELSE LET r == Invoke(cbs[i], h, s)
           tr2 == Append(tr, Invoked(i, h, s, r))
       IN IF r.err # "none"
            THEN [state |-> r.state, err |-> r.err, trace |-> tr2]
            ELSE Iterate(cbs, h, r.state, i + 1, tr2)

\* a call that restores the state it was entered with when a callback raises
Dispatch_rollback(method) ==
  LET r == Iterate(callbacks, Forward(method), state, 1, <<>>)
  IN /\ hook' = method
     /\ entry' = state
     /\ state' = IF r.err = "none" THEN r.state ELSE state
     /\ err' = r.err
     /\ trace' = r.trace
     /\ UNCHANGED <<callbacks, ctor_callbacks>>

\* a call that drops a callback from the collection when it raises
Dispatch_unregister(method) ==
  LET r == Iterate(callbacks, Forward(method), state, 1, <<>>)
      n == Len(r.trace)
  IN /\ hook' = method
     /\ entry' = state
     /\ state' = r.state
     /\ err' = r.err
     /\ trace' = r.trace
     /\ callbacks' = IF r.err = "none" THEN callbacks
                     ELSE SubSeq(callbacks, 1, n - 1) \o SubSeq(callbacks, n + 1, Len(callbacks))
     /\ UNCHANGED ctor_callbacks

\* a call of the CallbackCompose method `method` by the driver
Dispatch(method) ==
  LET r == Iterate(callbacks, Forward(method), state, 1, <<>>)
  IN /\ hook' = method
     /\ entry' = state
     /\ state' = r.state
     /\ err' = r.err
     /\ trace' = r.trace
     /\ UNCHANGED <<callbacks, ctor_callbacks>>

CallbackCompose_on_train_start == Dispatch("on_train_start")

CallbackCompose_on_train_end == Dispatch("on_train_end")

CallbackCompose_on_infer_start == Dispatch("on_infer_start")

CallbackCompose_on_infer_end == Dispatch("on_infer_end")

CallbackCompose_on_epoch_start == Dispatch("on_epoch_start")

CallbackCompose_on_epoch_end == Dispatch("on_epoch_end")

CallbackCompose_on_loader_start == Dispatch("on_loader_start")

CallbackCompose_on_loader_end == Dispatch("on_loader_end")

CallbackCompose_on_batch_start == Dispatch("on_batch_start")

CallbackCompose_on_batch_end == Dispatch("on_batch_end")

(* --------------------------- specifications ---------------------------- *)

\* every MetricCallback and MultiMetricCallback configuration in the bounds
MetricConfigs ==
  {MetricCallback(p, f, ik, ok, mp) :
     p \in Prefixes, f \in SingleFns, ik \in InputKeys, ok \in OutputKeys,
     mp \in ParamSets}

MultiConfigs ==
  {MultiMetricCallback(p, f, la, ik, ok, mp) :
     p \in Prefixes, f \in MultiFns, la \in SeqsUpTo(Labels, MaxArgs),
     ik \in InputKeys, ok \in OutputKeys, mp \in ParamSets}

AllConfigs == {BaseCallback} \cup MetricConfigs \cup MultiConfigs

\* the callbacks a multi-member collection is drawn from
Pool ==
  {BaseCallback,
   MetricCallback("p", "acc", "targets", "logits", EmptyMap),
   MetricCallback("p_a", "loss", "labels", "logits", [x \in {"k"} |-> 1]),
   MetricCallback("zz", "raises", "targets", "logits", EmptyMap),
   MultiMetricCallback("p", "per_arg", <<"a", "b">>, "targets", "logits", EmptyMap),
   MultiMetricCallback("p", "bad_tail", <<"b", "a">>, "labels", "logits", EmptyMap)}

\* CallbackCompose.__init__ with the given callbacks, and the RunState the
\* driver passes to the hooks
InitWith(cbs) ==
  /\ ctor_callbacks \in cbs
  /\ callbacks = ctor_callbacks
  /\ state \in RunStates
  /\ hook = "none"
  /\ err = "none"
  /\ trace = <<>>
  /\ entry = state

Init == InitWith(SeqsUpTo(Pool, MaxCallbacks))

InitObserver == InitWith({<<c>> : c \in AllConfigs})

Next ==
  \/ CallbackCompose_on_train_start
  \/ CallbackCompose_on_train_end
  \/ CallbackCompose_on_infer_start
  \/ CallbackCompose_on_infer_end
  \/ CallbackCompose_on_epoch_start
  \/ CallbackCompose_on_epoch_end
  \/ CallbackCompose_on_loader_start
  \/ CallbackCompose_on_loader_end
  \/ CallbackCompose_on_batch_start
  \/ CallbackCompose_on_batch_end

\* a dispatcher over up to MaxCallbacks callbacks of the pool
Spec == Init /\ [][Next]_vars

\* a dispatcher holding one callback of any configuration
SpecObserver == InitObserver /\ [][Next]_vars

TypeOK ==
  /\ hook \in Hooks \cup {"none"}
  /\ err \in {"none", "KeyError", "MetricFnError", "UnsupportedMetricType"}
  /\ Len(trace) <= Len(callbacks)

(* ------------------------- claims: vocabulary -------------------------- *)

\* the callback a trace record is about
CallbackOf(t) == callbacks[t.idx]

\* the trace records of on_batch_end calls on callbacks of the given kind
BatchEndCalls(kind) ==
  {i \in 1..Len(trace) :
     trace[i].hook = "on_batch_end" /\ CallbackOf(trace[i]).kind = kind}

\* both keys the callback reads exist in the RunState
HasKeys(cb, s) ==
  cb.output_key \in DOMAIN s.output /\ cb.input_key \in DOMAIN s.input

\* the keys whose value differs between two batch_metrics maps
Changed(before, after) ==
  {k \in (DOMAIN before) \cup (DOMAIN after) :
     \/ k \notin DOMAIN before
     \/ k \notin DOMAIN after
     \/ before[k] # after[k]}

\* the state a callback of the trace started from, by the dispatch order
StartOf(i) == IF i = 1 THEN entry ELSE trace[i - 1].after

\* what the metric function of a MetricCallback returns on a RunState
SingleOn(cb, s) ==
  CallSingle(cb.metric_fn, s.input[cb.input_key], s.output[cb.output_key],
             cb.metric_params)

\* what the metric function of a MultiMetricCallback returns on a RunState
MultiOn(cb, s) ==
  CallMulti(cb.metric_fn, s.input[cb.input_key], s.output[cb.output_key],
            cb.list_args, cb.metric_params)

Scalar(metric) == get_val_from_metric(metric).err = "none"

ScalarOf(metric) == get_val_from_metric(metric).val

Distinct(args) ==
  \A i \in 1..Len(args) : \A j \in 1..Len(args) : args[i] = args[j] => i = j

Min(a, b) == IF a < b THEN a ELSE b

(* ------------------------------- claims -------------------------------- *)

\* C1: a CallbackCompose call invokes the callbacks in insertion order, each
\* with the hook of the called method and on the state left by the one
\* before it: record i of the trace is callback i, it starts from the entry
\* state (i = 1) or from the state callback i-1 left, it leaves the state
\* that callback's hook computes from there, and the caller gets the state
\* the last one left; when no callback raises, all of them are invoked.
C1_DispatchInOrder ==
  hook # "none" =>
    /\ \A i \in 1..Len(trace) :
         /\ trace[i].idx = i
         /\ trace[i].hook = hook
         /\ trace[i].before = StartOf(i)
         /\ trace[i].after = Invoke(callbacks[i], hook, StartOf(i)).state
    /\ state = StartOf(Len(trace) + 1)
    /\ err = "none" => Len(trace) = Len(callbacks)

\* C1 witness: the second callback of an on_batch_end call starts from a
\* state holding a metric the first one wrote in the same call.
C1_Witness ==
  /\ hook = "on_batch_end"
  /\ Len(trace) = 2
  /\ \E k \in DOMAIN trace[2].before.batch_metrics :
       /\ k \notin DOMAIN entry.batch_metrics
       /\ k \in Changed(trace[1].before.batch_metrics,
                        trace[1].after.batch_metrics)

\* C2: after a MetricCallback.on_batch_end that returns, batch_metrics[prefix]
\* is the scalar extracted from metric_fn(targets, outputs, **metric_params),
\* whether or not the key existed before, and every other key keeps its
\* value; the call returns whenever both keys exist and the function returns
\* a scalar.
C2_MetricWritten ==
  \A i \in BatchEndCalls("MetricCallback") :
    LET t == trace[i]
        cb == CallbackOf(t)
        ok == /\ HasKeys(cb, t.before)
              /\ ~SingleOn(cb, t.before).raised
              /\ Scalar(SingleOn(cb, t.before).value)
    IN /\ ok => t.err = "none"
       /\ t.err = "none" =>
            /\ ok
            /\ DOMAIN t.after.batch_metrics
                 = (DOMAIN t.before.batch_metrics) \cup {cb.prefix}
            /\ t.after.batch_metrics[cb.prefix]
                 = ScalarOf(SingleOn(cb, t.before).value)
            /\ Changed(t.before.batch_metrics, t.after.batch_metrics)
                 \subseteq {cb.prefix}

\* C2 witness: a MetricCallback has overwritten a value that existed under
\* its prefix, next to another key.
C2_Witness ==
  \E i \in BatchEndCalls("MetricCallback") :
    /\ trace[i].err = "none"
    /\ CallbackOf(trace[i]).prefix \in DOMAIN trace[i].before.batch_metrics
    /\ "zz" \in DOMAIN trace[i].before.batch_metrics
    /\ trace[i].after.batch_metrics[CallbackOf(trace[i]).prefix] # OldVal

\* C3: a MultiMetricCallback with distinct labels whose metric function
\* returns as many results as there are labels writes, for every position i,
\* the scalar of result i under prefix_label(i); batch_metrics then holds
\* these keys and the keys it had, the latter unchanged unless they are one
\* of the composed keys.
C3_MultiPairedByPosition ==
  \A i \in BatchEndCalls("MultiMetricCallback") :
    LET t == trace[i]
        cb == CallbackOf(t)
        keys == {MetricKey(cb.prefix, cb.list_args[j]) :
                   j \in 1..Len(cb.list_args)}
    IN (/\ t.err = "none"
        /\ Distinct(cb.list_args)
        /\ Len(MultiOn(cb, t.before).value) = Len(cb.list_args)) =>
         /\ \A j \in 1..Len(cb.list_args) :
              LET key == MetricKey(cb.prefix, cb.list_args[j])
              IN /\ key \in DOMAIN t.after.batch_metrics
                 /\ t.after.batch_metrics[key]
                      = ScalarOf(MultiOn(cb, t.before).value[j])
         /\ DOMAIN t.after.batch_metrics
              = (DOMAIN t.before.batch_metrics) \cup keys
         /\ Changed(t.before.batch_metrics, t.after.batch_metrics)
              \subseteq keys

\* C3 witness: two distinct labels were written, with different values, next
\* to a key that was there before.
C3_Witness ==
  \E i \in BatchEndCalls("MultiMetricCallback") :
    LET t == trace[i]
        cb == CallbackOf(t)
    IN /\ t.err = "none"
       /\ cb.list_args = <<"b", "a">>
       /\ cb.metric_fn = "per_arg"
       /\ "zz" \in DOMAIN t.after.batch_metrics
       /\ t.after.batch_metrics[MetricKey(cb.prefix, "a")]
            # t.after.batch_metrics[MetricKey(cb.prefix, "b")]

\* C4: on_batch_end of a MetricCallback or MultiMetricCallback on a state
\* that lacks the output key or the input key raises KeyError (the spec's
\* KeyMissing) without calling the metric function and without touching
\* batch_metrics.
C4_MissingKey ==
  \A i \in BatchEndCalls("MetricCallback") \cup BatchEndCalls("MultiMetricCallback") :
    LET t == trace[i]
    IN ~HasKeys(CallbackOf(t), t.before) =>
         /\ t.err = "KeyError"
         /\ t.fn_calls = <<>>
         /\ t.after.batch_metrics = t.before.batch_metrics

\* C4 witness: the output key is there and the input key is not.
C4_Witness ==
  \E i \in BatchEndCalls("MetricCallback") \cup BatchEndCalls("MultiMetricCallback") :
    /\ CallbackOf(trace[i]).output_key \in DOMAIN trace[i].before.output
    /\ CallbackOf(trace[i]).input_key \notin DOMAIN trace[i].before.input
    /\ trace[i].before.batch_metrics # EmptyMap
    /\ err = "KeyError"

\* C5: when a callback's hook raises, the CallbackCompose call ends with
\* that error, the raising callback is the last one invoked, it was invoked
\* once, and no callback after it was invoked.
C5_ErrorPropagates ==
  /\ \A i \in 1..Len(trace) :
       trace[i].err # "none" =>
         /\ i = Len(trace)
         /\ err = trace[i].err
         /\ Cardinality({j \in 1..Len(trace) : trace[j].idx = trace[i].idx}) = 1
         /\ \A j \in 1..Len(trace) : trace[j].idx <= trace[i].idx
  /\ err # "none" => Len(trace) >= 1 /\ trace[Len(trace)].err = err

\* C5 witness: the first of two callbacks raised and the second was not
\* invoked.
C5_Witness ==
  /\ err # "none"
  /\ Len(callbacks) = 2
  /\ Len(trace) = 1
  /\ callbacks[2].kind # "Callback"

LengthMismatch(i) ==
  /\ HasKeys(CallbackOf(trace[i]), trace[i].before)
  /\ ~MultiOn(CallbackOf(trace[i]), trace[i].before).raised
  /\ Len(MultiOn(CallbackOf(trace[i]), trace[i].before).value)
       # Len(CallbackOf(trace[i]).list_args)

\* C7 as stated: a MultiMetricCallback whose metric function returns a
\* sequence of another length than list_args fails with MetricCountMismatch.
C7_MismatchRaises ==
  \A i \in BatchEndCalls("MultiMetricCallback") :
    LengthMismatch(i) => trace[i].err = "MetricCountMismatch"

\* C7 amended: a length mismatch is not an error of its own.  The call
\* returns normally when every result that zip pairs with a label is a
\* scalar, and otherwise fails with the extraction error of a paired result.
C7_MismatchTruncates ==
  \A i \in BatchEndCalls("MultiMetricCallback") :
    LET t == trace[i]
        cb == CallbackOf(t)
        metrics == MultiOn(cb, t.before).value
        paired == 1..Min(Len(cb.list_args), Len(metrics))
    IN LengthMismatch(i) =>
         /\ (\A j \in paired : Scalar(metrics[j])) => t.err = "none"
         /\ (\E j \in paired : ~Scalar(metrics[j]))
              => t.err = "UnsupportedMetricType"

\* C7 witness: two labels, one result, and the call returned.
C7_Witness ==
  \E i \in BatchEndCalls("MultiMetricCallback") :
    /\ LengthMismatch(i)
    /\ Len(CallbackOf(trace[i]).list_args) = 2
    /\ Len(MultiOn(CallbackOf(trace[i]), trace[i].before).value) = 1
    /\ trace[i].err = "none"

\* the last position of list_args that carries the label
LastPos(args, label) ==
  CHOOSE j \in 1..Len(args) :
    args[j] = label /\ \A m \in (j + 1)..Len(args) : args[m] # label

\* C8: with a label at several positions of list_args (both keys there, as
\* many scalar results as labels), on_batch_end returns and every composed
\* key holds the scalar of the result at the last position of its label;
\* one key per distinct label is all the call adds.
C8_LastWriteWins ==
  \A i \in BatchEndCalls("MultiMetricCallback") :
    LET t == trace[i]
        cb == CallbackOf(t)
        args == cb.list_args
        metrics == MultiOn(cb, t.before).value
        keys == {MetricKey(cb.prefix, args[j]) : j \in 1..Len(args)}
    IN (/\ ~Distinct(args)
        /\ HasKeys(cb, t.before)
        /\ ~MultiOn(cb, t.before).raised
        /\ Len(metrics) = Len(args)
        /\ \A j \in 1..Len(metrics) : Scalar(metrics[j])) =>
         /\ t.err = "none"
         /\ \A j \in 1..Len(args) :
              t.after.batch_metrics[MetricKey(cb.prefix, args[j])]
                = ScalarOf(metrics[LastPos(args, args[j])])
         /\ DOMAIN t.after.batch_metrics
              = (DOMAIN t.before.batch_metrics) \cup keys
         /\ Cardinality(keys) = Cardinality({args[j] : j \in 1..Len(args)})

\* C8 witness: the label "a" twice, two different results, and the key holds
\* the second.
C8_Witness ==
  \E i \in BatchEndCalls("MultiMetricCallback") :
    LET t == trace[i]
        cb == CallbackOf(t)
        metrics == MultiOn(cb, t.before).value
    IN /\ cb.list_args = <<"a", "a">>
       /\ t.err = "none"
       /\ Len(metrics) = 2
       /\ ScalarOf(metrics[1]) # ScalarOf(metrics[2])
       /\ t.after.batch_metrics[MetricKey(cb.prefix, "a")] = ScalarOf(metrics[2])

\* every member of the collection is a base Callback
AllDefault == \A i \in 1..Len(callbacks) : callbacks[i].kind = "Callback"

\* C9: a hook of a base Callback returns without raising and leaves input,
\* output and batch_metrics as they were; a CallbackCompose call on a
\* collection of base Callbacks only invokes them all and changes nothing,
\* so neither does a sequence of such calls.
C9_DefaultHooksNoOp ==
  [][/\ \A i \in 1..Len(trace') :
          callbacks[trace'[i].idx].kind = "Callback" =>
            /\ trace'[i].err = "none"
            /\ trace'[i].after = trace'[i].before
     /\ AllDefault =>
          /\ state' = state
          /\ err' = "none"
          /\ Len(trace') = Len(callbacks)]_vars

\* C9 witness: two base Callbacks were called on a state that holds inputs,
\* outputs and metrics.
C9_Witness ==
  /\ AllDefault
  /\ Len(trace) = 2
  /\ hook = "on_batch_end"
  /\ state.batch_metrics # EmptyMap
  /\ state.input # EmptyMap
  /\ state.output # EmptyMap

\* C10: on_batch_end of a metric callback is idempotent: called again on the
\* state it left (same input and output), it calls the metric function with
\* the same arguments, ends the same way and leaves that state as it is; and
\* the configuration of the callbacks is the one given at construction.
C10_Idempotent ==
  /\ callbacks = ctor_callbacks
  /\ \A i \in BatchEndCalls("MetricCallback") \cup BatchEndCalls("MultiMetricCallback") :
       LET t == trace[i]
           again == Invoke(CallbackOf(t), "on_batch_end", t.after)
       IN /\ t.after.input = t.before.input
          /\ t.after.output = t.before.output
          /\ again.state = t.after
          /\ again.err = t.err
          /\ again.fn_calls = t.fn_calls

\* C10 witness: a MetricCallback replaced the value under its prefix, so the
\* first call changed the state the second one starts from.
C10_Witness ==
  \E i \in BatchEndCalls("MetricCallback") :
    /\ trace[i].err = "none"
    /\ CallbackOf(trace[i]).prefix \in DOMAIN trace[i].before.batch_metrics
    /\ trace[i].after.batch_metrics # trace[i].before.batch_metrics
    /\ Len(trace[i].fn_calls) = 1

\* the on_batch_end calls of the metric callbacks, of either kind
MetricCalls == BatchEndCalls("MetricCallback") \cup BatchEndCalls("MultiMetricCallback")

\* C11: a metric callback whose on_batch_end ends with an error (missing key,
\* error of the metric function, extraction failure on any result) has
\* written nothing: batch_metrics is what it was when its hook was entered.
C11_NoPartialCompletion ==
  \A i \in MetricCalls :
    trace[i].err # "none" =>
      trace[i].after.batch_metrics = trace[i].before.batch_metrics

\* the positions zip pairs: those that both list_args and the results have
Paired(cb, s) == 1..Min(Len(cb.list_args), Len(MultiOn(cb, s).value))

\* C12: a length mismatch between list_args and the results is not an error.
\* When the paired results are scalars the call returns normally having
\* written the pairs up to the shorter length, by position: a label beyond
\* that length gets no key and a surplus result changes nothing.
C12_TruncatesToShorter ==
  \A i \in BatchEndCalls("MultiMetricCallback") :
    LET t == trace[i]
        cb == CallbackOf(t)
        metrics == MultiOn(cb, t.before).value
        paired == Paired(cb, t.before)
        keys == {cb.prefix \o "_" \o cb.list_args[j] : j \in paired}
    IN (LengthMismatch(i) /\ \A j \in paired : Scalar(metrics[j])) =>
         /\ t.err = "none"
         /\ DOMAIN t.after.batch_metrics = (DOMAIN t.before.batch_metrics) \cup keys
         /\ Changed(t.before.batch_metrics, t.after.batch_metrics) \subseteq keys
         /\ \A j \in paired :
              (\A m \in paired : m > j => cb.list_args[m] # cb.list_args[j]) =>
                t.after.batch_metrics[cb.prefix \o "_" \o cb.list_args[j]]
                  = ScalarOf(metrics[j])

\* C12 witness: two distinct labels and one result: the first label is
\* written, the second is not.
C12_Witness ==
  \E i \in BatchEndCalls("MultiMetricCallback") :
    LET t == trace[i]
        cb == CallbackOf(t)
    IN /\ LengthMismatch(i)
       /\ cb.list_args = <<"a", "b">>
       /\ Len(MultiOn(cb, t.before).value) = 1
       /\ t.before.batch_metrics = EmptyMap
       /\ t.err = "none"
       /\ DOMAIN t.after.batch_metrics = {cb.prefix \o "_a"}

\* C13: a CallbackCompose method calls, on the callbacks it reaches, the hook
\* of its own name and no other, each callback once; when no callback raises
\* it reaches all of them, one call each; on an empty collection it calls
\* nothing, raises nothing and leaves the state as it was.
C13_SameHookOnce ==
  hook # "none" =>
    /\ \A i \in 1..Len(trace) : \A h \in Hooks :
         (trace[i].hook = h) <=> (h = hook)
    /\ \A i \in 1..Len(trace) : \A j \in 1..Len(trace) :
         trace[i].idx = trace[j].idx => i = j
    /\ err = "none" =>
         /\ Len(trace) = Len(callbacks)
         /\ {trace[i].idx : i \in 1..Len(trace)} = 1..Len(callbacks)
    /\ Len(callbacks) = 0 => trace = <<>> /\ err = "none" /\ state = entry

\* C13 witness: on_loader_end reached both of two callbacks.
C13_Witness ==
  /\ hook = "on_loader_end"
  /\ Len(callbacks) = 2
  /\ Len(trace) = 2
  /\ trace[1].hook = "on_loader_end"
  /\ trace[2].hook = "on_loader_end"

\* the batch_metrics keys the configuration of a metric callback names
WriteKeys(cb) ==
  IF cb.kind = "MetricCallback" THEN {cb.prefix}
  ELSE {cb.prefix \o "_" \o cb.list_args[j] : j \in 1..Len(cb.list_args)}

\* C14: on_batch_end of a metric callback, whether it returns or raises,
\* leaves state.input and state.output as they were and creates or changes
\* no batch_metrics key other than prefix (MetricCallback) or prefix_arg for
\* an arg of list_args (MultiMetricCallback).
C14_Frame ==
  \A i \in MetricCalls :
    /\ trace[i].after.input = trace[i].before.input
    /\ trace[i].after.output = trace[i].before.output
    /\ Changed(trace[i].before.batch_metrics, trace[i].after.batch_metrics)
         \subseteq WriteKeys(CallbackOf(trace[i]))

\* C14 witness: a MultiMetricCallback raised after writing one of its keys
\* into a state that held other keys.
C14_Witness ==
  \E i \in BatchEndCalls("MultiMetricCallback") :
    /\ trace[i].err # "none"
    /\ "zz" \in DOMAIN trace[i].before.batch_metrics
    /\ Changed(trace[i].before.batch_metrics, trace[i].after.batch_metrics) # {}

\* C15: in any sequence of CallbackCompose calls, a call of one of the nine
\* methods other than on_batch_end returns and leaves the whole RunState as
\* it was, whatever the callbacks and whether or not their keys exist: the
\* metric callbacks react to on_batch_end only.
C15_OnlyBatchEnd ==
  [][hook' # "on_batch_end" =>
       /\ state' = state
       /\ err' = "none"
       /\ \A i \in 1..Len(trace') :
            trace'[i].after = trace'[i].before /\ trace'[i].fn_calls = <<>>]_vars

\* C15 witness: on_batch_start went through two metric callbacks on a state
\* without the input key.
C15_Witness ==
  /\ hook = "on_batch_start"
  /\ Len(trace) = 2
  /\ callbacks[1].kind = "MetricCallback"
  /\ callbacks[2].kind = "MultiMetricCallback"
  /\ ~HasKeys(callbacks[1], state)
  /\ err = "none"

\* C16: an on_batch_end that finds its keys calls the metric function once,
\* with state.input[input_key] as targets first and state.output[output_key]
\* as outputs second, a MultiMetricCallback with list_args third, and with
\* the metric_params given at construction; what a MetricCallback stores is
\* the scalar of the function's result on these arguments in this order.
C16_MetricFnArguments ==
  \A i \in MetricCalls :
    LET t == trace[i]
        cb == CallbackOf(t)
        multi == cb.kind = "MultiMetricCallback"
    IN HasKeys(cb, t.before) =>
         /\ Len(t.fn_calls) = 1
         /\ t.fn_calls[1].targets = t.before.input[cb.input_key]
         /\ t.fn_calls[1].outputs = t.before.output[cb.output_key]
         /\ t.fn_calls[1].multi = multi
         /\ t.fn_calls[1].list_args = (IF multi THEN cb.list_args ELSE <<>>)
         /\ t.fn_calls[1].metric_params = cb.metric_params
         /\ (~multi /\ t.err = "none") =>
              t.after.batch_metrics[cb.prefix]
                = ScalarOf(CallSingle(cb.metric_fn, t.fn_calls[1].targets,
                                      t.fn_calls[1].outputs,
                                      t.fn_calls[1].metric_params).value)

\* C16 witness: targets and outputs differ and a parameter was forwarded, so
\* a swap or a dropped parameter would show in the stored value.
C16_Witness ==
  \E i \in BatchEndCalls("MetricCallback") :
    /\ Len(trace[i].fn_calls) = 1
    /\ trace[i].fn_calls[1].targets # trace[i].fn_calls[1].outputs
    /\ trace[i].fn_calls[1].metric_params # EmptyMap
    /\ Param(trace[i].fn_calls[1].metric_params) = 1
    /\ trace[i].err = "none"

\* the keys a callback of a successful on_batch_end call stored: its prefix,
\* or the composed keys of the positions zip paired
WrittenBy(i) ==
  LET cb == CallbackOf(trace[i])
  IN IF trace[i].hook # "on_batch_end" THEN {}
     ELSE IF cb.kind = "MetricCallback" THEN {cb.prefix}
     ELSE IF cb.kind = "MultiMetricCallback"
       THEN {cb.prefix \o "_" \o cb.list_args[j] : j \in Paired(cb, trace[i].before)}
     ELSE {}

\* the value a callback stores under a key, computed from its configuration
\* and the batch: the extracted result, of the last paired position that
\* carries the label for a MultiMetricCallback
StoredBy(i, k) ==
  LET cb == CallbackOf(trace[i])
      s == trace[i].before
  IN IF cb.kind = "MetricCallback" THEN ScalarOf(SingleOn(cb, s).value)
     ELSE LET at == {j \in Paired(cb, s) : cb.prefix \o "_" \o cb.list_args[j] = k}
              last == CHOOSE j \in at : \A m \in at : m <= j
          IN ScalarOf(MultiOn(cb, s).value[last])

\* C17: after a CallbackCompose.on_batch_end that returns, every key stored
\* during the call holds the value stored by the last callback, in dispatch
\* order, that stores under it; keys that collide across callbacks raise
\* nothing and keep no earlier value.
C17_LastWriterWins ==
  (hook = "on_batch_end" /\ err = "none") =>
    \A k \in DOMAIN state.batch_metrics :
      LET writers == {i \in 1..Len(trace) : k \in WrittenBy(i)}
      IN writers # {} =>
           state.batch_metrics[k]
             = StoredBy(CHOOSE i \in writers : \A j \in writers : j <= i, k)

\* C17 witness: a MetricCallback with prefix "p_a" and a MultiMetricCallback
\* with prefix "p" and label "a" stored different values under "p_a".
C17_Witness ==
  /\ hook = "on_batch_end"
  /\ err = "none"
  /\ Len(trace) = 2
  /\ callbacks[1].kind # callbacks[2].kind
  /\ "p_a" \in WrittenBy(1) \cap WrittenBy(2)
  /\ trace[1].after.batch_metrics["p_a"] # state.batch_metrics["p_a"]

\* C18: the collection of a CallbackCompose is the one given to the
\* constructor after any sequence of calls, failed ones included, and a call
\* in which nothing raises goes through exactly its members, in its order.
C18_MembershipFixed ==
  /\ callbacks = ctor_callbacks
  /\ (hook # "none" /\ err = "none") =>
       /\ Len(trace) = Len(ctor_callbacks)
       /\ \A i \in 1..Len(trace) :
            trace[i].after = Invoke(ctor_callbacks[i], hook, trace[i].before).state

\* C18 witness: on_train_end went through both callbacks after an
\* on_batch_end that had raised in the first one, leaving its partial write.
C18_Witness ==
  /\ hook = "on_train_end"
  /\ Len(trace) = 2
  /\ callbacks[1].kind = "MultiMetricCallback"
  /\ callbacks[1].metric_fn = "bad_tail"
  /\ callbacks[2] = callbacks[1]
  /\ "p_b" \in DOMAIN state.batch_metrics

====
